---- MODULE Spec2Model ----
(***************************************************************************)
(* A state-machine model of the two AIX audio output drivers of SDL 1.2:   *)
(* the raw paud/baud driver (src/src/audio/paudio/SDL_paudio.c) and the    *)
(* UMS driver (src/unnamed/part_000).  One session (SDL_AudioDevice) of    *)
(* one of the two drivers is modelled; the operating system and the audio  *)
(* device are the environment, whose answers are chosen with \E.           *)
(***************************************************************************)
EXTENDS Integers, Sequences, FiniteSets, TLC

(***************************************************************************)
(* Bounds of the model.                                                    *)
(***************************************************************************)
\* spec->samples, the number of sample frames of the playback buffer the
\* application asks for
MaxSamples == 2
\* device write attempts within one PlayAudio call before the device must
\* answer with something that ends the loop
MaxAttempts == 3
\* buffer-state queries within one Paud_WaitAudio call before the device
\* must report a drained buffer or fail
MaxQueries == 3
\* number of blocks the allocator can hand out before it is out of memory
MaxAllocs == 2
\* number of file descriptors the process may have open at a time
MaxFds == 2

(***************************************************************************)
(* Program constants.                                                      *)
(***************************************************************************)
NULL == 0
MAX_LATENCY_MS == 100
\* what getpid() returns
Pid == 7

NoFormat == "0"
AUDIO_U8 == "AUDIO_U8"
AUDIO_S8 == "AUDIO_S8"
AUDIO_S16LSB == "AUDIO_S16LSB"
AUDIO_S16MSB == "AUDIO_S16MSB"
AUDIO_U16LSB == "AUDIO_U16LSB"
AUDIO_U16MSB == "AUDIO_U16MSB"
\* a format value that is none of the six SDL 1.2 formats
AUDIO_OTHER == "AUDIO_OTHER"

EAGAIN == "EAGAIN"
EINTR == "EINTR"
EIO == "EIO"
EBADF == "EBADF"
EFAULT == "EFAULT"
\* errno = 0
ENONE == "0"

UMSAudioDevice_Success == "Success"
UMSAudioDevice_Failure == "Failure"
UMSAudioDevice_Preempted == "Preempted"
UMSAudioDevice_Interrupted == "Interrupted"
UMSAudioDevice_DeviceError == "DeviceError"

(***************************************************************************)
(* Inputs the environment draws from.                                      *)
(***************************************************************************)
ReqFormats == {AUDIO_U8, AUDIO_S8, AUDIO_S16LSB, AUDIO_S16MSB,
               AUDIO_U16LSB, AUDIO_U16MSB, AUDIO_OTHER}
ReqChannels == {0, 1, 2, 6}
FdRange == 3..(2 + MaxFds)
PtrRange == 1..MaxAllocs
BufTimes == {0, MAX_LATENCY_MS, MAX_LATENCY_MS + 1, 3000}
\* byte values an uninitialised block may hold
GarbageBytes == {0, 128}

VARIABLES
    drv,      \* which driver the session was created by: "paud" or "ums"
    pc,       \* "idle", or the loop the writer thread is in
    hidden,   \* this->hidden (struct SDL_PrivateAudioData)
    enabled,  \* this->enabled
    spec,     \* the caller-visible SDL_AudioSpec handed to OpenAudio
    os,       \* environment: fds, the open descriptors; heap, the allocated
              \* blocks; data, the bytes of the block the session's buffer
              \* pointer names; dev, the UMS device object is open
    local,    \* locals of the loop that pc is in, and errno as it reads it
    log,      \* requests of the current (or last) call to the OS/device
    call,     \* the last call that returned: [op, ret, error]
    req,      \* the spec the application desires; the caller copies it into
              \* spec before every OpenAudio
    session   \* "open" after OpenAudio returned 0, "failed" after it returned
              \* -1, "closed" before the first OpenAudio and after CloseAudio

vars == <<drv, pc, hidden, enabled, spec, os, local, log, call, req, session>>

Min(S) == CHOOSE x \in S : \A y \in S : x <= y

Ev(r, a, res, e) == [req |-> r, arg |-> a, res |-> res, err |-> e]

Count(l, r) == Cardinality({i \in 1..Len(l) : l[i].req = r})

NoLocal == [written |-> 0, errno |-> ENONE, delay |-> 0, samplesToWrite |-> 0]

NoSpec == [format |-> NoFormat, channels |-> 0, size |-> 0, silence |-> 0]

\* content of a block whose bytes all equal b
Block(n, b) == [i \in 1..n |-> b]


\* the result of a handler that runs to its return in one step
R(h, o, sp, l, ret, error) ==
    [hidden |-> h, os |-> o, spec |-> sp, log |-> l, ret |-> ret, error |-> error]

(***************************************************************************)
(* The format tables of the audio core (SDL_audio.c, SDL_audio.h).         *)
(***************************************************************************)
format_list ==
    << <<AUDIO_U8, AUDIO_S8, AUDIO_S16LSB, AUDIO_S16MSB, AUDIO_U16LSB, AUDIO_U16MSB>>,
       <<AUDIO_S8, AUDIO_U8, AUDIO_S16LSB, AUDIO_S16MSB, AUDIO_U16LSB, AUDIO_U16MSB>>,
       <<AUDIO_S16LSB, AUDIO_S16MSB, AUDIO_U16LSB, AUDIO_U16MSB, AUDIO_U8, AUDIO_S8>>,
       <<AUDIO_S16MSB, AUDIO_S16LSB, AUDIO_U16MSB, AUDIO_U16LSB, AUDIO_U8, AUDIO_S8>>,
       <<AUDIO_U16LSB, AUDIO_U16MSB, AUDIO_S16LSB, AUDIO_S16MSB, AUDIO_U8, AUDIO_S8>>,
       <<AUDIO_U16MSB, AUDIO_U16LSB, AUDIO_S16MSB, AUDIO_S16LSB, AUDIO_U8, AUDIO_S8>> >>

\* the formats SDL_FirstAudioFormat(format), SDL_NextAudioFormat(), ... return
\* before the terminating 0
Candidates(format) ==
    IF \E i \in 1..Len(format_list) : format_list[i][1] = format
    THEN format_list[CHOOSE i \in 1..Len(format_list) : format_list[i][1] = format]
    ELSE << >>

\* spec->silence as SDL_CalculateAudioSpec sets it
Silence(format) == IF format = AUDIO_U8 THEN 128 ELSE 0

\* the bits per sample of a format (format & 0xFF)
FormatBits(format) ==
    IF format \in {AUDIO_U8, AUDIO_S8} THEN 8
    ELSE IF format = AUDIO_OTHER THEN 32 ELSE 16

\* spec->size as SDL_CalculateAudioSpec sets it before OpenAudio is called
Size(format, channels, samples) == (FormatBits(format) \div 8) * channels * samples

\* the spec SDL_OpenAudio hands to the driver for a desired format and
\* channel count
DesiredSpec(f, c) ==
    [format |-> f, channels |-> c, size |-> Size(f, c, MaxSamples),
     silence |-> Silence(f)]

(***************************************************************************)
(* Audio_CreateDevice: the session after construction.                     *)
(***************************************************************************)
Paud_CreateDevice ==
    /\ drv = "paud"
    /\ hidden = [audio_fd |-> -1, parent |-> 0, mixbuf |-> NULL, mixlen |-> 0]
    /\ os = [fds |-> {}, heap |-> {}, data |-> << >>, dev |-> FALSE]

UMS_CreateDevice ==
    /\ drv = "ums"
    /\ hidden = [playbuf |-> [_buffer |-> NULL, _length |-> 0, _maximum |-> 0],
                 bytesPerSample |-> 0]
    /\ os = [fds |-> {}, heap |-> {}, data |-> << >>, dev |-> TRUE]

Init ==
    /\ Paud_CreateDevice \/ UMS_CreateDevice
    /\ pc = "idle"
    /\ enabled = 0
    /\ spec = NoSpec
    /\ local = NoLocal
    /\ log = << >>
    /\ call = [op |-> "CreateDevice", ret |-> 0, error |-> ""]
    /\ req \in {DesiredSpec(f, c) : f \in ReqFormats, c \in ReqChannels}
    /\ session = "closed"

(***************************************************************************)
(* SDL_paudio.c                                                            *)
(***************************************************************************)
\* audio->enabled as SDL_OpenAudio (SDL_audio.c) sets it before it calls the
\* driver's OpenAudio
SDL_OpenAudio_enabled == 1

\* the formats the switch of Paud_OpenAudio has a case for
Paud_Formats == {AUDIO_U8, AUDIO_S8, AUDIO_S16LSB, AUDIO_S16MSB,
                 AUDIO_U16LSB, AUDIO_U16MSB}

Paud_bytes_per_sample(f) == IF f \in {AUDIO_U8, AUDIO_S8} THEN 1 ELSE 2

\* the negotiation loop: the first candidate the switch knows, or 0
RECURSIVE Paud_Negotiate(_, _)
Paud_Negotiate(cands, i) ==
    IF i > Len(cands) THEN NoFormat
    ELSE IF cands[i] \in Paud_Formats THEN cands[i]
    ELSE Paud_Negotiate(cands, i + 1)

Paud_InitError(rc) ==
    CASE rc = 1 -> "Couldn't set audio format: DSP can't do play requests"
      [] rc = 2 -> "Couldn't set audio format: DSP can't do record requests"
      [] rc = 4 -> "Couldn't set audio format: request was invalid"
      [] rc = 5 -> "Couldn't set audio format: conflict with open's flags"
      [] rc = 6 -> "Couldn't set audio format: out of DSP MIPS or memory"
      [] OTHER -> "Couldn't set audio format: not documented in sys/audio.h"

\* the channel coercion of Paud_OpenAudio
Paud_Channels(c) == IF c > 1 THEN 2 ELSE 1

\* Paud_OpenAudio, were a rejected AUDIO_CHANGE to make it fail
Paud_Open_changeFatal(h, o, sp, d) ==
    LET free == FdRange \ o.fds
        fd == IF d.open /\ free # {} THEN Min(free) ELSE -1
        e_open == Ev("open", 0, fd, "")
    IN
    IF fd < 0
    THEN R([h EXCEPT !.audio_fd = fd], o, sp, <<e_open>>, -1, "Couldn't open")
    ELSE
    LET h1 == [h EXCEPT !.audio_fd = fd, !.mixbuf = NULL]
        o1 == [o EXCEPT !.fds = @ \cup {fd}]
        sp1 == [sp EXCEPT !.channels = Paud_Channels(@)]
        test_format == Paud_Negotiate(Candidates(sp.format), 1)
    IN
    IF test_format = NoFormat
    THEN R(h1, o1, sp1, <<e_open>>, -1, "Couldn't find any hardware audio formats")
    ELSE
    LET sp2 == [sp1 EXCEPT !.format = test_format]
        bsize == Paud_bytes_per_sample(test_format) * 8 * sp2.channels
        e_init == Ev("AUDIO_INIT", bsize, IF d.init THEN 0 ELSE -1, "")
    IN
    IF ~d.init
    THEN R(h1, o1, sp2, <<e_open, e_init>>, -1, Paud_InitError(d.rc))
    ELSE
    IF ~d.change
    THEN R(h1, o1, sp2,
           <<e_open, e_init, Ev("AUDIO_CHANGE", 0, -1, "")>>, -1,
           "Can't change audio display settings")
    ELSE
    LET e_change == Ev("AUDIO_CHANGE", 0, IF d.change THEN 0 ELSE -1, "")
        freep == PtrRange \ o1.heap
        p == IF d.alloc /\ freep # {} THEN Min(freep) ELSE NULL
        e_alloc == Ev("alloc", sp2.size, p, "")
        h2 == [h1 EXCEPT !.mixlen = sp2.size, !.mixbuf = p]
    IN
    IF p = NULL
    THEN R(h2, o1, sp2, <<e_open, e_init, e_change, e_alloc>>, -1, "")
    ELSE
    LET o2 == [o1 EXCEPT !.heap = @ \cup {p}, !.data = Block(sp2.size, sp2.silence)]
        e_start == Ev("AUDIO_START", 0, IF d.start THEN 0 ELSE -1, "")
        l == <<e_open, e_init, e_change, e_alloc, e_start>>
    IN
    IF ~d.start
    THEN R(h2, o2, sp2, l, -1, "Can't start audio play")
    ELSE R([h2 EXCEPT !.parent = Pid], o2, sp2, l, 0, "")

\* Paud_OpenAudio on hidden state h, environment o and spec sp, with the
\* answers d of the OS and the device
Paud_Open(h, o, sp, d) ==
    LET free == FdRange \ o.fds
        fd == IF d.open /\ free # {} THEN Min(free) ELSE -1
        e_open == Ev("open", 0, fd, "")
    IN
    IF fd < 0
    THEN R([h EXCEPT !.audio_fd = fd], o, sp, <<e_open>>, -1, "Couldn't open")
    ELSE
    LET h1 == [h EXCEPT !.audio_fd = fd, !.mixbuf = NULL]
        o1 == [o EXCEPT !.fds = @ \cup {fd}]
        sp1 == [sp EXCEPT !.channels = Paud_Channels(@)]
        test_format == Paud_Negotiate(Candidates(sp.format), 1)
    IN
    IF test_format = NoFormat
    THEN R(h1, o1, sp1, <<e_open>>, -1, "Couldn't find any hardware audio formats")
    ELSE
    LET sp2 == [sp1 EXCEPT !.format = test_format]
        bsize == Paud_bytes_per_sample(test_format) * 8 * sp2.channels
        e_init == Ev("AUDIO_INIT", bsize, IF d.init THEN 0 ELSE -1, "")
    IN
    IF ~d.init
    THEN R(h1, o1, sp2, <<e_open, e_init>>, -1, Paud_InitError(d.rc))
    ELSE
    LET e_change == Ev("AUDIO_CHANGE", 0, IF d.change THEN 0 ELSE -1, "")
        freep == PtrRange \ o1.heap
        p == IF d.alloc /\ freep # {} THEN Min(freep) ELSE NULL
        e_alloc == Ev("alloc", sp2.size, p, "")
        h2 == [h1 EXCEPT !.mixlen = sp2.size, !.mixbuf = p]
    IN
    IF p = NULL
    THEN R(h2, o1, sp2, <<e_open, e_init, e_change, e_alloc>>, -1, "")
    ELSE
    LET o2 == [o1 EXCEPT !.heap = @ \cup {p}, !.data = Block(sp2.size, sp2.silence)]
        e_start == Ev("AUDIO_START", 0, IF d.start THEN 0 ELSE -1, "")
        l == <<e_open, e_init, e_change, e_alloc, e_start>>
    IN
    IF ~d.start
    THEN R(h2, o2, sp2, l, -1, "Can't start audio play")
    ELSE R([h2 EXCEPT !.parent = Pid], o2, sp2, l, 0, "")

\* the answers of the OS and the device to the requests of Paud_OpenAudio
\* (an answer to a request that is never made is left at TRUE, rc at 0)
Paud_OpenAnswers ==
    LET A(o, i, rc, c, a, st) ==
            [open |-> o, init |-> i, rc |-> rc, change |-> c, alloc |-> a, start |-> st]
    IN {A(FALSE, TRUE, 0, TRUE, TRUE, TRUE)}
       \cup {A(TRUE, FALSE, rc, TRUE, TRUE, TRUE) : rc \in {0, 1, 2, 4, 5, 6}}
       \cup {A(TRUE, TRUE, 0, c, FALSE, TRUE) : c \in BOOLEAN}
       \cup {A(TRUE, TRUE, 0, c, TRUE, st) : c \in BOOLEAN, st \in BOOLEAN}

Paud_OpenAudio ==
    /\ drv = "paud" /\ pc = "idle" /\ session = "closed"
    /\ \E d \in Paud_OpenAnswers :
         \E r \in {Paud_Open(hidden, os, req, d)} :
            /\ hidden' = r.hidden
            /\ os' = r.os
            /\ spec' = r.spec
            /\ log' = r.log
            /\ call' = [op |-> "OpenAudio", ret |-> r.ret, error |-> r.error]
            /\ session' = IF r.ret = 0 THEN "open" ELSE "failed"
    /\ enabled' = SDL_OpenAudio_enabled
    /\ UNCHANGED <<drv, pc, local, req>>

\* Paud_CloseAudio on hidden state h and environment o; stop is the
\* device's answer to AUDIO_STOP
Paud_Close(h, o, sp, stop) ==
    LET hasbuf == h.mixbuf # NULL
        l1 == IF hasbuf THEN <<Ev("free", h.mixbuf, 0, "")>> ELSE << >>
        o1 == IF hasbuf THEN [o EXCEPT !.heap = @ \ {h.mixbuf}, !.data = << >>] ELSE o
        h1 == [h EXCEPT !.mixbuf = NULL]
    IN
    IF h.audio_fd >= 0
    THEN R([h1 EXCEPT !.audio_fd = -1],
           [o1 EXCEPT !.fds = @ \ {h.audio_fd}], sp,
           l1 \o <<Ev("AUDIO_STOP", 0, IF stop THEN 0 ELSE -1, ""),
                   Ev("close", h.audio_fd, 0, "")>>, 0, "")
    ELSE R(h1, o1, sp, l1, 0, "")

Paud_CloseAudio ==
    /\ drv = "paud" /\ pc = "idle"
    /\ \E stop \in BOOLEAN :
         \E r \in {Paud_Close(hidden, os, spec, stop)} :
            /\ hidden' = r.hidden
            /\ os' = r.os
            /\ log' = r.log
            /\ call' = [op |-> "CloseAudio", ret |-> r.ret, error |-> ""]
    /\ session' = "closed"
    /\ UNCHANGED <<drv, pc, enabled, spec, local, req>>

Paud_GetAudioBuf ==
    /\ drv = "paud" /\ pc = "idle"
    /\ call' = [op |-> "GetAudioBuf", ret |-> hidden.mixbuf, error |-> ""]
    /\ log' = << >>
    /\ UNCHANGED <<drv, pc, hidden, enabled, spec, os, local, req, session>>

\* the answers of the device to the ioctl AUDIO_BUFFER of Paud_WaitAudio: a
\* failure, or the time in ms its write buffer holds
Paud_QueryAnswers(h, o, l) ==
    IF h.audio_fd \notin o.fds
    THEN {[ok |-> FALSE, ms |-> 0]}
    ELSE {[ok |-> FALSE, ms |-> 0]}
         \cup {[ok |-> TRUE, ms |-> m] :
                 m \in IF Count(l, "AUDIO_BUFFER") >= MaxQueries - 1
                       THEN {t \in BufTimes : t <= MAX_LATENCY_MS}
                       ELSE BufTimes}

\* Paud_MustWait with the comparison off by one
Paud_MustWait_atBudget(ms_in_buf) == ms_in_buf >= MAX_LATENCY_MS

\* the test of Paud_WaitAudio on the reported time: keep waiting
Paud_MustWait(ms_in_buf) == ms_in_buf > MAX_LATENCY_MS

\* Paud_Wait without the SDL_Delay between two queries
Paud_Wait_noDelay(l, a) ==
    IF ~a.ok
    THEN [log |-> Append(l, Ev("AUDIO_BUFFER", 0, -1, "")), delay |-> 0]
    ELSE [log |-> Append(l, Ev("AUDIO_BUFFER", 0, a.ms, "")),
          delay |-> IF Paud_MustWait(a.ms) THEN 1 ELSE 0]

\* Paud_Wait that sleeps and queries again when the query failed
Paud_Wait_retryQuery(l, a) ==
    IF ~a.ok \/ Paud_MustWait(a.ms)
    THEN [log |-> l \o <<Ev("AUDIO_BUFFER", 0, IF a.ok THEN a.ms ELSE -1, ""),
                         Ev("SDL_Delay", MAX_LATENCY_MS \div 2, 0, "")>>,
          delay |-> 1]
    ELSE [log |-> Append(l, Ev("AUDIO_BUFFER", 0, a.ms, "")), delay |-> 0]

\* Paud_Wait that returns after one sleep although the report was above the
\* budget
Paud_Wait_giveUp(l, a) ==
    IF ~a.ok
    THEN [log |-> Append(l, Ev("AUDIO_BUFFER", 0, -1, "")), delay |-> 0]
    ELSE IF Paud_MustWait(a.ms)
    THEN [log |-> l \o <<Ev("AUDIO_BUFFER", 0, a.ms, ""),
                         Ev("SDL_Delay", MAX_LATENCY_MS \div 2, 0, "")>>,
          delay |-> 0]
    ELSE [log |-> Append(l, Ev("AUDIO_BUFFER", 0, a.ms, "")), delay |-> 0]

\* one iteration of the do-while loop of Paud_WaitAudio, after the requests
\* l of the earlier iterations, on the device's answer a
Paud_Wait(l, a) ==
    IF ~a.ok
    THEN [log |-> Append(l, Ev("AUDIO_BUFFER", 0, -1, "")), delay |-> 0]
    ELSE IF Paud_MustWait(a.ms)
    THEN [log |-> l \o <<Ev("AUDIO_BUFFER", 0, a.ms, ""),
                         Ev("SDL_Delay", MAX_LATENCY_MS \div 2, 0, "")>>,
          delay |-> 1]
    ELSE [log |-> Append(l, Ev("AUDIO_BUFFER", 0, a.ms, "")), delay |-> 0]

Paud_WaitIter(l) ==
    \E a \in Paud_QueryAnswers(hidden, os, l) :
        \E r \in {Paud_Wait(l, a)} :
           /\ log' = r.log
           /\ IF r.delay # 0
              THEN /\ pc' = "Paud_WaitAudio"
                   /\ local' = [NoLocal EXCEPT !.delay = r.delay]
                   /\ call' = call
              ELSE /\ pc' = "idle"
                   /\ local' = NoLocal
                   /\ call' = [op |-> "WaitAudio", ret |-> 0, error |-> ""]
           /\ UNCHANGED <<drv, hidden, enabled, spec, os, req, session>>

\* Paud_WaitAudio is called: the first iteration of its loop
Paud_WaitAudio ==
    /\ drv = "paud" /\ pc = "idle"
    /\ Paud_WaitIter(<< >>)

\* a later iteration of the loop of Paud_WaitAudio
Paud_WaitAudio_loop ==
    /\ drv = "paud" /\ pc = "Paud_WaitAudio"
    /\ Paud_WaitIter(log)

\* the answers of the device to write(audio_fd, mixbuf, mixlen): the number
\* of bytes it accepted, or -1 and errno as the code then reads it
Paud_WriteAnswers(h, o, l) ==
    IF h.audio_fd \notin o.fds
    THEN {[written |-> -1, errno |-> EBADF]}
    ELSE IF h.mixbuf = NULL /\ h.mixlen > 0
    THEN {[written |-> -1, errno |-> EFAULT]}
    ELSE {[written |-> n, errno |-> ENONE] :
             n \in {0, 1, h.mixlen - 1, h.mixlen} \cap (0..h.mixlen)}
         \cup {[written |-> -1, errno |-> e] :
                 e \in IF Count(l, "write") >= MaxAttempts - 1
                       THEN {EIO}
                       ELSE {EIO, ENONE, EAGAIN, EINTR}}

\* the byte of mixbuf at which a write attempt starts, when the earlier
\* attempts of the call accepted done bytes: write(audio_fd, mixbuf, mixlen)
Paud_WriteStart(done) == 0

\* Paud_PlaySleeps without the test for errno = 0
Paud_PlaySleeps_onlyEAGAIN(written, e) == (written < 0) /\ (e = EAGAIN)

\* the test before SDL_Delay(1) in Paud_PlayAudio
Paud_PlaySleeps(written, e) == (written < 0) /\ ((e = ENONE) \/ (e = EAGAIN))

\* the condition of the do-while loop of Paud_PlayAudio
Paud_PlayAgain(written, e) ==
    (written < 0) /\ ((e = ENONE) \/ (e = EAGAIN) \/ (e = EINTR))

\* this->enabled after the loop of Paud_PlayAudio
Paud_PlayEnabled(written, en) == IF written < 0 THEN 0 ELSE en

\* one iteration of the do-while loop of Paud_PlayAudio, after the requests
\* l of the earlier iterations, on the device's answer a
Paud_Play(h, l, a) ==
    LET e_write == Ev("write", h.mixlen, a.written, a.errno)
    IN [log |-> IF Paud_PlaySleeps(a.written, a.errno)
                THEN l \o <<e_write, Ev("SDL_Delay", 1, 0, "")>>
                ELSE Append(l, e_write),
        again |-> Paud_PlayAgain(a.written, a.errno)]

Paud_PlayIter(l) ==
    \E a \in Paud_WriteAnswers(hidden, os, l) :
        \E r \in {Paud_Play(hidden, l, a)} :
           /\ log' = r.log
           /\ IF r.again
              THEN /\ pc' = "Paud_PlayAudio"
                   /\ local' = [NoLocal EXCEPT !.written = a.written, !.errno = a.errno]
                   /\ call' = call
                   /\ enabled' = enabled
              ELSE /\ pc' = "idle"
                   /\ local' = NoLocal
                   /\ call' = [op |-> "PlayAudio", ret |-> 0, error |-> ""]
                   /\ enabled' = Paud_PlayEnabled(a.written, enabled)
           /\ UNCHANGED <<drv, hidden, spec, os, req, session>>

\* Paud_PlayAudio is called: the first iteration of its loop
Paud_PlayAudio ==
    /\ drv = "paud" /\ pc = "idle"
    /\ Paud_PlayIter(<< >>)

\* a later iteration of the loop of Paud_PlayAudio
Paud_PlayAudio_loop ==
    /\ drv = "paud" /\ pc = "Paud_PlayAudio"
    /\ Paud_PlayIter(log)

(***************************************************************************)
(* The UMS driver (src/unnamed/part_000).                                  *)
(***************************************************************************)
\* the formats the switch of UMS_OpenAudio has a case for
UMS_Formats == {AUDIO_U8, AUDIO_S16LSB, AUDIO_S16MSB}

UMS_bitsPerSample(f) == IF f = AUDIO_U8 THEN 8 ELSE 16

\* the negotiation loop, giving up at the first candidate the device rejects
RECURSIVE UMS_Negotiate_stopAtReject(_, _, _, _)
UMS_Negotiate_stopAtReject(cands, i, accept, l) ==
    IF i > Len(cands) THEN [format |-> NoFormat, log |-> l]
    ELSE IF cands[i] \in UMS_Formats
    THEN IF cands[i] \in accept
         THEN [format |-> cands[i], log |-> Append(l, Ev("set_format", 0, 0, cands[i]))]
         ELSE [format |-> NoFormat,
               log |-> Append(l, Ev("set_format", 0, -1, cands[i]))]
    ELSE UMS_Negotiate_stopAtReject(cands, i + 1, accept, l)

\* the negotiation loop of UMS_OpenAudio from candidate i on; accept is the
\* set of formats whose three configuration requests the device accepts.
\* Yields the accepted format (or 0) and the requests made.
RECURSIVE UMS_Negotiate(_, _, _, _)
UMS_Negotiate(cands, i, accept, l) ==
    IF i > Len(cands) THEN [format |-> NoFormat, log |-> l]
    ELSE IF cands[i] \in UMS_Formats
    THEN IF cands[i] \in accept
         THEN [format |-> cands[i], log |-> Append(l, Ev("set_format", 0, 0, cands[i]))]
         ELSE UMS_Negotiate(cands, i + 1, accept,
                            Append(l, Ev("set_format", 0, -1, cands[i])))
    ELSE UMS_Negotiate(cands, i + 1, accept, l)

\* the channel coercion of UMS_OpenAudio
UMS_Channels(c) == IF c # 1 THEN 2 ELSE c

\* hidden->bytesPerSample as UMS_OpenAudio computes it, from the bits per
\* sample and spec->channels as it is at that line
UMS_bytesPerSample(bitsPerSample, channels) == (bitsPerSample \div 8) * channels

Rc(ok) == IF ok THEN 0 ELSE -1

\* the three requests of UMS_CloseAudio; d holds the device's answers
UMS_CloseRequests(d) ==
    <<Ev("play_remaining_data", 0, Rc(d.flush), ""),
      Ev("stop", 0, Rc(d.stop), ""),
      Ev("close", 0, 0, "")>>

UMS_Close(h, o, sp, d) ==
    R(h, [o EXCEPT !.dev = FALSE], sp, UMS_CloseRequests(d), 0, "")

\* UMS_OpenAudio on hidden state h, environment o and spec sp, with the
\* answers d of the allocator and the device
UMS_Open(h, o, sp, d) ==
    LET e_type == Ev("set_audio_format_type", 0, Rc(d.cfg), "")
        n == UMS_Negotiate(Candidates(sp.format), 1, d.accept, <<e_type>>)
    IN
    IF n.format = NoFormat
    THEN R(h, o, sp, n.log, -1, "Couldn't find any hardware audio formats")
    ELSE
    LET sp1 == [sp EXCEPT !.format = n.format]
        bitsPerSample == UMS_bitsPerSample(n.format)
        freep == PtrRange \ o.heap
        p == IF d.alloc /\ freep # {} THEN Min(freep) ELSE NULL
        h1 == [h EXCEPT !.bytesPerSample = UMS_bytesPerSample(bitsPerSample, sp1.channels),
                        !.playbuf = [_buffer |-> p, _length |-> sp1.size,
                                     _maximum |-> sp1.size]]
        l1 == Append(n.log, Ev("alloc", sp1.size, p, ""))
    IN
    IF p = NULL
    THEN LET c == UMS_Close(h1, o, sp1, d)
         IN R(c.hidden, c.os, c.spec, l1 \o c.log, -1, "")
    ELSE
    LET o1 == [o EXCEPT !.heap = @ \cup {p}, !.data = Block(sp1.size, d.garbage)]
        sp2 == [sp1 EXCEPT !.channels = UMS_Channels(@)]
        l2 == l1 \o
              <<Ev("set_bits_per_sample", bitsPerSample, Rc(d.cfg), ""),
                Ev("set_DMA_buffer_size", 256, Rc(d.cfg), ""),
                Ev("set_audio_buffer_size", 2 * sp1.size, Rc(d.cfg), ""),
                Ev("set_number_of_channels", sp2.channels, Rc(d.cfg), ""),
                Ev("set_time_format", 0, Rc(d.cfg), ""),
                Ev("disable_output", 0, Rc(d.route), ""),
                Ev("enable_output", 0, Rc(d.route), ""),
                Ev("set_volume", 100, Rc(d.route), ""),
                Ev("set_balance", 0, Rc(d.route), ""),
                Ev("initialize", 0, Rc(d.init), ""),
                Ev("start", 0, Rc(d.start), "")>>
    IN R(h1, o1, sp2, l2, 0, "")

\* the answers of the allocator and the device to the requests of
\* UMS_OpenAudio and of the UMS_CloseAudio it calls
\* (an answer to a request that is never made is left at TRUE)
UMS_OpenAnswers ==
    LET A(acc, a, g, c, r, i, st) ==
            [accept |-> acc, alloc |-> a, garbage |-> g, cfg |-> c, route |-> r,
             init |-> i, start |-> st, flush |-> TRUE, stop |-> st]
        \* the device accepts none, one or all of the formats
        Accepts == {{}, UMS_Formats} \cup {{f} : f \in UMS_Formats}
        \* at most one of the routing, initialize and start requests fails
        Rcs == {<<TRUE, TRUE, TRUE>>, <<FALSE, TRUE, TRUE>>,
                <<TRUE, FALSE, TRUE>>, <<TRUE, TRUE, FALSE>>}
    IN {A(acc, FALSE, 0, TRUE, TRUE, TRUE, TRUE) : acc \in Accepts}
       \cup {A(acc, TRUE, g, TRUE, rc[1], rc[2], rc[3]) :
               acc \in Accepts, g \in GarbageBytes, rc \in Rcs}

UMS_OpenAudio ==
    /\ drv = "ums" /\ pc = "idle" /\ session = "closed"
    /\ \E d \in UMS_OpenAnswers :
         \E r \in {UMS_Open(hidden, os, req, d)} :
            /\ hidden' = r.hidden
            /\ os' = r.os
            /\ spec' = r.spec
            /\ log' = r.log
            /\ call' = [op |-> "OpenAudio", ret |-> r.ret, error |-> r.error]
            /\ session' = IF r.ret = 0 THEN "open" ELSE "failed"
    /\ enabled' = SDL_OpenAudio_enabled
    /\ UNCHANGED <<drv, pc, local, req>>

UMS_CloseAudio ==
    /\ drv = "ums" /\ pc = "idle"
    /\ \E f \in BOOLEAN, st \in BOOLEAN :
         \E r \in {UMS_Close(hidden, os, spec, [flush |-> f, stop |-> st])} :
            /\ hidden' = r.hidden
            /\ os' = r.os
            /\ log' = r.log
            /\ call' = [op |-> "CloseAudio", ret |-> r.ret, error |-> ""]
    /\ session' = "closed"
    /\ UNCHANGED <<drv, pc, enabled, spec, local, req>>

UMS_GetAudioBuf ==
    /\ drv = "ums" /\ pc = "idle"
    /\ call' = [op |-> "GetAudioBuf", ret |-> hidden.playbuf._buffer, error |-> ""]
    /\ log' = << >>
    /\ UNCHANGED <<drv, pc, hidden, enabled, spec, os, local, req, session>>

\* UMS_WaitAudio does nothing
UMS_WaitAudio ==
    /\ drv = "ums" /\ pc = "idle"
    /\ call' = [op |-> "WaitAudio", ret |-> 0, error |-> ""]
    /\ log' = << >>
    /\ UNCHANGED <<drv, pc, hidden, enabled, spec, os, local, req, session>>

\* the values samplesToWrite may start with: length / bytesPerSample, and
\* with bytesPerSample = 0 the quotient is undefined (the POWER divide
\* instruction does not trap), so any of the values below
UMS_samplesToWrite(h) ==
    IF h.bytesPerSample # 0
    THEN {h.playbuf._length \div h.bytesPerSample}
    ELSE {0, h.playbuf._length}

\* the answers of the device to UMSAudioDevice_write of n samples, after the
\* requests l of the earlier iterations; a device object that was closed
\* accepts nothing
UMS_WriteAnswers(o, n, l) ==
    IF ~o.dev
    THEN {[rc |-> UMSAudioDevice_Failure, samplesWritten |-> 0]}
    ELSE {[rc |-> rc, samplesWritten |-> 0] :
             rc \in {UMSAudioDevice_Failure, UMSAudioDevice_Preempted,
                     UMSAudioDevice_Interrupted, UMSAudioDevice_DeviceError}}
         \cup {[rc |-> UMSAudioDevice_Success, samplesWritten |-> k] :
                 k \in IF n <= 0 THEN {0}
                       ELSE IF Count(l, "UMS_write") >= MaxAttempts - 1 THEN {n}
                       ELSE 0..n}

\* the sample of playbuf._buffer at which a UMSAudioDevice_write attempt
\* starts, when the earlier attempts of the call accepted done samples: the
\* call passes &playbuf itself, and _buffer is never advanced
UMS_WriteStart(done) == 0

\* the condition of the do-while loop of UMS_PlayAudio
UMS_PlayAgain(samplesToWrite) == samplesToWrite > 0

\* UMS_Play that leaves the loop when a write accepted no sample
UMS_Play_exitOnZero(n, l, a) ==
    LET left == n - a.samplesWritten
    IN [log |-> Append(l, Ev("UMS_write", n, a.samplesWritten, a.rc)),
        samplesToWrite |-> left,
        again |-> IF a.rc # UMSAudioDevice_Success \/ a.samplesWritten = 0
                  THEN FALSE ELSE UMS_PlayAgain(left)]

\* one iteration of the do-while loop of UMS_PlayAudio with n samples left,
\* after the requests l of the earlier iterations, on the device's answer a
UMS_Play(n, l, a) ==
    LET left == n - a.samplesWritten
    IN [log |-> Append(l, Ev("UMS_write", n, a.samplesWritten, a.rc)),
        samplesToWrite |-> left,
        again |-> IF a.rc # UMSAudioDevice_Success THEN FALSE ELSE UMS_PlayAgain(left)]

UMS_PlayIter(n, l) ==
    \E a \in UMS_WriteAnswers(os, n, l) :
        \E r \in {UMS_Play(n, l, a)} :
           /\ log' = r.log
           /\ IF r.again
              THEN /\ pc' = "UMS_PlayAudio"
                   /\ local' = [NoLocal EXCEPT !.samplesToWrite = r.samplesToWrite]
                   /\ call' = call
              ELSE /\ pc' = "idle"
                   /\ local' = NoLocal
                   /\ call' = [op |-> "PlayAudio", ret |-> 0, error |-> ""]
           /\ UNCHANGED <<drv, hidden, enabled, spec, os, req, session>>

\* UMS_PlayAudio is called: the first iteration of its loop
UMS_PlayAudio ==
    /\ drv = "ums" /\ pc = "idle"
    /\ \E n \in UMS_samplesToWrite(hidden) : UMS_PlayIter(n, << >>)

\* a later iteration of the loop of UMS_PlayAudio
UMS_PlayAudio_loop ==
    /\ drv = "ums" /\ pc = "UMS_PlayAudio"
    /\ UMS_PlayIter(local.samplesToWrite, log)

(***************************************************************************)
(* The loops past the bounds MaxQueries and MaxAttempts.  The device goes  *)
(* on answering as before; of the requests of the call only those of the   *)
(* latest iterations are kept.  An iteration takes two steps, so that the  *)
(* position of the writer thread in the loop is part of the state.         *)
(***************************************************************************)
\* an iteration of the loop of Paud_WaitAudio past the bound, the device
\* reporting more than the budget: the query, up to the call of SDL_Delay
Paud_WaitAudio_more ==
    /\ drv = "paud" /\ pc = "Paud_WaitAudio"
    /\ Count(log, "AUDIO_BUFFER") >= MaxQueries - 1
    /\ \E a \in {x \in Paud_QueryAnswers(hidden, os, << >>) :
                    x.ok /\ x.ms > MAX_LATENCY_MS} :
         \E r \in {Paud_Wait(SubSeq(log, 3, Len(log)), a)} :
            /\ log' = r.log
            /\ IF r.delay # 0
               THEN /\ pc' = "Paud_WaitAudio_delay"
                    /\ local' = [NoLocal EXCEPT !.delay = r.delay]
                    /\ call' = call
               ELSE /\ pc' = "idle"
                    /\ local' = NoLocal
                    /\ call' = [op |-> "WaitAudio", ret |-> 0, error |-> ""]
    /\ UNCHANGED <<drv, hidden, enabled, spec, os, req, session>>

\* SDL_Delay returns: back at the head of the loop of Paud_WaitAudio
Paud_WaitAudio_delayed ==
    /\ drv = "paud" /\ pc = "Paud_WaitAudio_delay"
    /\ pc' = "Paud_WaitAudio"
    /\ UNCHANGED <<drv, hidden, enabled, spec, os, local, log, call, req, session>>

\* an iteration of the loop of UMS_PlayAudio past the bound, the device
\* accepting fewer samples than are left: the write, up to the loop test
UMS_PlayAudio_more ==
    /\ drv = "ums" /\ pc = "UMS_PlayAudio" /\ os.dev
    /\ Count(log, "UMS_write") >= MaxAttempts - 1
    /\ \E k \in 0..(local.samplesToWrite - 1) :
         \E r \in {UMS_Play(local.samplesToWrite, Tail(log),
                            [rc |-> UMSAudioDevice_Success, samplesWritten |-> k])} :
            /\ log' = r.log
            /\ IF r.again
               THEN /\ pc' = "UMS_PlayAudio_test"
                    /\ local' = [NoLocal EXCEPT !.samplesToWrite = r.samplesToWrite]
                    /\ call' = call
               ELSE /\ pc' = "idle"
                    /\ local' = NoLocal
                    /\ call' = [op |-> "PlayAudio", ret |-> 0, error |-> ""]
    /\ UNCHANGED <<drv, hidden, enabled, spec, os, req, session>>

\* the loop test held: back at the head of the loop of UMS_PlayAudio
UMS_PlayAudio_again ==
    /\ drv = "ums" /\ pc = "UMS_PlayAudio_test"
    /\ pc' = "UMS_PlayAudio"
    /\ UNCHANGED <<drv, hidden, enabled, spec, os, local, log, call, req, session>>

Next ==
    \/ UMS_OpenAudio
    \/ UMS_CloseAudio
    \/ UMS_GetAudioBuf
    \/ UMS_WaitAudio
    \/ UMS_PlayAudio
    \/ UMS_PlayAudio_loop
    \/ Paud_WaitAudio
    \/ Paud_WaitAudio_loop
    \/ Paud_PlayAudio
    \/ Paud_PlayAudio_loop
    \/ Paud_OpenAudio
    \/ Paud_CloseAudio
    \/ Paud_GetAudioBuf

Spec == Init /\ [][Next]_vars

\* the steps of the writer thread inside a loop it has entered
WriterRuns ==
    \/ Paud_WaitAudio_loop
    \/ Paud_WaitAudio_more
    \/ Paud_WaitAudio_delayed
    \/ Paud_PlayAudio_loop
    \/ UMS_PlayAudio_loop
    \/ UMS_PlayAudio_more
    \/ UMS_PlayAudio_again

NextUnbounded ==
    \/ Next
    \/ Paud_WaitAudio_more
    \/ Paud_WaitAudio_delayed
    \/ UMS_PlayAudio_more
    \/ UMS_PlayAudio_again

\* the loops without an iteration bound; the writer thread, once in a loop,
\* keeps running (SDL_Delay returns, the thread is scheduled)
SpecUnbounded == Init /\ [][NextUnbounded]_vars /\ WF_vars(WriterRuns)

(***************************************************************************)
(* Properties.                                                             *)
(***************************************************************************)
\* the call op has returned and nothing was called since
Returned(op) == pc = "idle" /\ call.op = op

Last(l) == l[Len(l)]

HoldsHandle == IF drv = "paud" THEN hidden.audio_fd >= 0 ELSE os.dev

HoldsBuffer ==
    IF drv = "paud" THEN hidden.mixbuf # NULL ELSE hidden.playbuf._buffer # NULL

\* the length of the staged buffer
BufLen == IF drv = "paud" THEN hidden.mixlen ELSE hidden.playbuf._length

RECURSIVE SumWritten(_)
SumWritten(l) ==
    IF l = << >> THEN 0
    ELSE (IF l[1].req = "UMS_write" THEN l[1].res ELSE 0) + SumWritten(Tail(l))

\* the bytes the device accepted in the PlayAudio call that log records
Accepted ==
    IF drv = "paud"
    THEN IF log # << >> /\ Last(log).req = "write" /\ Last(log).res >= 0
         THEN Last(log).res ELSE 0
    ELSE SumWritten(log) * hidden.bytesPerSample

\* C1: whenever OpenAudio returns failure, the session holds no open device
\* handle and no allocated playback buffer.
C1_FailedOpenHoldsNothing ==
    (Returned("OpenAudio") /\ call.ret = -1) => (~HoldsHandle /\ ~HoldsBuffer)

\* C2: when PlayAudio of an open session returns, the device has accepted
\* every byte of the staged buffer or the session is disabled; a short write
\* is never the last write attempt of the call.
C2_WriteDrainsOrDisables ==
    (session = "open" /\ Returned("PlayAudio")) =>
        /\ (Accepted = BufLen) \/ (enabled = 0)
        /\ ~(drv = "paud" /\ Last(log).res >= 0 /\ Last(log).res < hidden.mixlen)

\* the write attempts of l are n >= 0 transient failures (errno EAGAIN or 0)
\* followed by one write that accepted len bytes
TransientThenFull(l, len) ==
    /\ l # << >>
    /\ Last(l).req = "write" /\ Last(l).res = len
    /\ \A i \in 1..(Len(l) - 1) :
          l[i].req = "write" => (l[i].res < 0 /\ l[i].err \in {EAGAIN, ENONE})

\* C3: a Paud_PlayAudio step after which the write results of the call are n
\* transient failures followed by a full-length success returns, with
\* exactly n sleeps and n + 1 write attempts made, each failure followed by
\* its sleep, and with this->enabled as it was.
C3_TransientRetries ==
    [][((Paud_PlayAudio \/ Paud_PlayAudio_loop)
            /\ TransientThenFull(log', hidden.mixlen))
        => LET n == Count(log', "write") - 1
           IN /\ pc' = "idle" /\ call'.op = "PlayAudio"
              /\ Count(log', "SDL_Delay") = n
              /\ Len(log') = 2 * n + 1
              /\ \A i \in 1..n : log'[2 * i].req = "SDL_Delay"
              /\ enabled' = enabled]_vars

\* Paud_PlayAudio returned after EAGAIN, EAGAIN-or-0, full success: two
\* sleeps, three writes, still enabled
C3_Witness ==
    /\ drv = "paud" /\ session = "open" /\ Returned("PlayAudio")
    /\ TransientThenFull(log, hidden.mixlen)
    /\ hidden.mixlen > 0
    /\ Count(log, "write") = 3 /\ Count(log, "SDL_Delay") = 2
    /\ log[1].err = EAGAIN /\ log[3].err = ENONE
    /\ enabled = 1

\* a write result that is a failure and not transient
Fatal(e) ==
    \/ e.req = "write" /\ e.res < 0 /\ e.err \notin {ENONE, EAGAIN, EINTR}
    \/ e.req = "UMS_write" /\ e.err # UMSAudioDevice_Success

\* C4: a non-transient write failure on an open session is the last request
\* of its PlayAudio call (no further write, no sleep), and the call returns
\* with the session disabled.
C4_FatalWriteDisables ==
    session = "open" =>
        \A i \in 1..Len(log) :
            Fatal(log[i]) => (i = Len(log) /\ Returned("PlayAudio") /\ enabled = 0)

\* C5: CloseAudio on a session that was just closed makes no request to the
\* device or the OS and changes nothing of the session.
C5_CloseIdempotent ==
    [][(Returned("CloseAudio") /\ (Paud_CloseAudio \/ UMS_CloseAudio))
        => (log' = << >> /\ hidden' = hidden /\ os' = os
            /\ enabled' = enabled /\ spec' = spec)]_vars

\* C6: after CloseAudio returns, the playback buffer is freed and its
\* pointer cleared, and the device handle is closed and marked invalid.
C6_CloseReleasesAll ==
    Returned("CloseAudio") =>
        (~HoldsBuffer /\ ~HoldsHandle /\ os.heap = {} /\ os.fds = {})

IsQuery(e) == e.req = "AUDIO_BUFFER"

\* C7: in Paud_WaitAudio, a first query that reports 0 ms is the only
\* request of the call, which has returned; a query that reports more than
\* the budget is directly followed by a sleep, so no two queries follow each
\* other without a sleep between them.
C7_WaitPacing ==
    /\ (log # << >> /\ IsQuery(log[1]) /\ log[1].res = 0)
            => (Len(log) = 1 /\ Returned("WaitAudio"))
    /\ \A i \in 1..Len(log) :
          (IsQuery(log[i]) /\ log[i].res > MAX_LATENCY_MS)
              => (i < Len(log) /\ log[i + 1].req = "SDL_Delay")
    /\ \A i \in 1..(Len(log) - 1) : ~(IsQuery(log[i]) /\ IsQuery(log[i + 1]))

\* Paud_WaitAudio returned after a report above the budget, one sleep and a
\* report of 0 ms
C7_Witness ==
    /\ drv = "paud" /\ session = "open" /\ Returned("WaitAudio")
    /\ Len(log) = 3
    /\ IsQuery(log[1]) /\ log[1].res > MAX_LATENCY_MS
    /\ log[2].req = "SDL_Delay"
    /\ IsQuery(log[3]) /\ log[3].res = 0

\* C8: Paud_WaitAudio returns only after a query that failed or that
\* reported at most MAX_LATENCY_MS, and a query that reports at most
\* MAX_LATENCY_MS (the budget itself included) is the last request of the
\* call, which has returned.
C8_WaitReturnsAtBudget ==
    /\ (drv = "paud" /\ Returned("WaitAudio"))
            => (log # << >> /\ IsQuery(Last(log))
                /\ Last(log).res <= MAX_LATENCY_MS)
    /\ \A i \in 1..Len(log) :
          (IsQuery(log[i]) /\ log[i].res >= 0 /\ log[i].res <= MAX_LATENCY_MS)
              => (i = Len(log) /\ Returned("WaitAudio"))

\* Paud_WaitAudio returned on a report equal to the budget, after a wait
C8_Witness ==
    /\ drv = "paud" /\ session = "open" /\ Returned("WaitAudio")
    /\ Len(log) = 3
    /\ log[1].res = MAX_LATENCY_MS + 1
    /\ Last(log).res = MAX_LATENCY_MS

\* C9: a failed buffer-state query is the last request of its
\* Paud_WaitAudio call, which has returned (no sleep, no further query);
\* no step of Paud_WaitAudio changes a field of the session, this->enabled
\* included; and after the return PlayAudio can be called and makes its
\* write attempt.
C9_QueryFailureAbandonsWait ==
    /\ [](\A i \in 1..Len(log) :
            (IsQuery(log[i]) /\ log[i].res < 0)
                => (i = Len(log) /\ Returned("WaitAudio")
                    /\ ENABLED Paud_PlayAudio))
    /\ [][(Paud_WaitAudio \/ Paud_WaitAudio_loop)
            => (hidden' = hidden /\ enabled' = enabled /\ spec' = spec
                /\ os' = os)]_vars
    /\ [][(drv = "paud" /\ Returned("WaitAudio") /\ log # << >>
             /\ IsQuery(Last(log)) /\ Last(log).res < 0 /\ Paud_PlayAudio)
            => (log'[1].req = "write" /\ log'[1].arg = hidden.mixlen)]_vars

\* Paud_WaitAudio of an open, enabled session returned on a query that
\* failed on the second iteration
C9_Witness ==
    /\ drv = "paud" /\ session = "open" /\ Returned("WaitAudio")
    /\ Len(log) = 3 /\ IsQuery(log[3]) /\ log[3].res < 0
    /\ hidden.audio_fd >= 0 /\ hidden.mixbuf # NULL /\ enabled = 1

\* C10: a successful OpenAudio writes back a channel count of 1 for a
\* request of 0 or 1 channels, and of 2 for a request of 2 or more.
C10_ChannelsZeroOneToOne ==
    (Returned("OpenAudio") /\ call.ret = 0)
        => spec.channels = (IF req.channels <= 1 THEN 1 ELSE 2)

\* C11: after a successful UMS_OpenAudio, hidden->bytesPerSample equals
\* (accepted bits per sample / 8) times the channel count that open wrote
\* back to the spec.
C11_BytesPerFrame ==
    (drv = "ums" /\ Returned("OpenAudio") /\ call.ret = 0) =>
        hidden.bytesPerSample
            = (UMS_bitsPerSample(spec.format) \div 8) * spec.channels

\* the candidates of cands that are in the set S, in their order
Known(cands, S) == SelectSeq(cands, LAMBDA f : f \in S)

\* the requests of the last call that programmed the device for a
\* candidate format (UMS: rate, byte order and number format of a candidate)
Tried == SelectSeq(log, LAMBDA e : e.req = "set_format")

\* the position of format f in the candidate sequence cands
CandIndex(cands, f) == CHOOSE k \in 1..Len(cands) : cands[k] = f

\* C12: when OpenAudio returns, a candidate whose configuration the device
\* rejected, and that is not the last candidate the driver can program, was
\* followed by an attempt to program the device for the next one; and a
\* successful open accepted the candidate of the last attempt, which the
\* device accepted.
C12_FirstAcceptedCandidate ==
    Returned("OpenAudio") =>
        IF drv = "paud"
        THEN \A i \in 1..Len(log) :
                (/\ log[i].req = "AUDIO_INIT" /\ log[i].res < 0
                 /\ CandIndex(Candidates(req.format), spec.format)
                        < Len(Candidates(req.format)))
                    => \E j \in (i + 1)..Len(log) : log[j].req = "AUDIO_INIT"
        ELSE LET known == Known(Candidates(req.format), UMS_Formats)
             IN /\ Len(Tried) <= Len(known)
                /\ \A k \in 1..Len(Tried) :
                      /\ Tried[k].err = known[k]
                      /\ (Tried[k].res < 0 /\ k < Len(known)) => k < Len(Tried)
                /\ call.ret = 0 =>
                      (/\ Tried # << >>
                       /\ Last(Tried).res = 0
                       /\ spec.format = Last(Tried).err)

\* C13: OpenAudio fails with "Couldn't find any hardware audio formats"
\* only when every candidate of the fallback sequence that the driver can
\* program was tried, in the order of the sequence, and none was accepted.
C13_FormatUnavailableAfterAll ==
    (Returned("OpenAudio")
        /\ call.error = "Couldn't find any hardware audio formats") =>
        /\ call.ret = -1
        /\ IF drv = "paud"
           THEN /\ Known(Candidates(req.format), Paud_Formats) = << >>
                /\ Count(log, "AUDIO_INIT") = 0
           ELSE LET known == Known(Candidates(req.format), UMS_Formats)
                IN /\ Len(Tried) = Len(known)
                   /\ \A k \in 1..Len(Tried) :
                         Tried[k].err = known[k] /\ Tried[k].res < 0

\* UMS_OpenAudio failed for lack of a format after the device rejected
\* three candidates, the requested one first
C13_Witness ==
    /\ drv = "ums" /\ Returned("OpenAudio") /\ call.ret = -1
    /\ call.error = "Couldn't find any hardware audio formats"
    /\ Len(Tried) = 3
    /\ Tried[1].err = req.format

\* C14: when the device rejected the final configuration or the start
\* request of an OpenAudio call (AUDIO_INIT, AUDIO_START; initialize,
\* start), the call has returned failure.
C14_StartFailureFailsOpen ==
    Returned("OpenAudio") =>
        \A i \in 1..Len(log) :
            (log[i].req \in {"AUDIO_INIT", "AUDIO_START", "initialize", "start"}
                /\ log[i].res < 0)
            => (call.ret = -1 /\ session # "open")

\* the outcomes a and b of OpenAudio differ at most in the results the
\* device gave to the requests
SameOutcome(a, b) ==
    /\ a.hidden = b.hidden /\ a.os = b.os /\ a.spec = b.spec
    /\ a.ret = b.ret /\ a.error = b.error
    /\ Len(a.log) = Len(b.log)
    /\ \A i \in 1..Len(a.log) :
          a.log[i].req = b.log[i].req /\ a.log[i].arg = b.log[i].arg

IsRouting(e) ==
    e.req \in {"AUDIO_CHANGE", "disable_output", "enable_output",
               "set_volume", "set_balance"}

\* C15: wherever OpenAudio can be called, and whatever the device answers
\* to the other requests, the call has the same return value, error,
\* session fields, spec and requests with the routing / volume / balance
\* requests failing as with them succeeding; and an OpenAudio call that
\* returned failure did not stop at a routing request.
C15_RoutingFailureNotFatal ==
    /\ (session = "closed" /\ pc = "idle") =>
          IF drv = "paud"
          THEN \A d \in {x \in Paud_OpenAnswers : x.change} :
                  \E a \in {Paud_Open(hidden, os, req, d)},
                     b \in {Paud_Open(hidden, os, req, [d EXCEPT !.change = FALSE])} :
                        SameOutcome(a, b)
          ELSE \A d \in {x \in UMS_OpenAnswers : x.route} :
                  \E a \in {UMS_Open(hidden, os, req, d)},
                     b \in {UMS_Open(hidden, os, req, [d EXCEPT !.route = FALSE])} :
                        SameOutcome(a, b)
    /\ (Returned("OpenAudio") /\ call.ret = -1 /\ log # << >>)
          => ~IsRouting(Last(log))

\* Paud_OpenAudio returned success although the device rejected AUDIO_CHANGE
C15_Witness ==
    /\ drv = "paud" /\ Returned("OpenAudio") /\ call.ret = 0
    /\ session = "open"
    /\ \E i \in 1..Len(log) : log[i].req = "AUDIO_CHANGE" /\ log[i].res < 0

\* C16: after a successful OpenAudio every byte of the playback buffer
\* equals spec->silence.
C16_BufferPrefilledWithSilence ==
    (Returned("OpenAudio") /\ call.ret = 0) =>
        os.data = Block(BufLen, spec.silence)

\* C17: a PlayAudio call on an open session that a fatal write error has
\* disabled makes no device write.
C17_DisabledSessionNoWrite ==
    [][(session = "open" /\ enabled = 0 /\ pc = "idle"
            /\ (Paud_PlayAudio \/ UMS_PlayAudio))
        => (Count(log', "write") = 0 /\ Count(log', "UMS_write") = 0)]_vars

\* C18: a successful OpenAudio writes back a channel count of 1 for a
\* request of exactly 1 channel and of 2 for every other request, 0
\* included.
C18_ChannelsNotOneToTwo ==
    (Returned("OpenAudio") /\ call.ret = 0)
        => spec.channels = (IF req.channels = 1 THEN 1 ELSE 2)

\* C19: the requests of a CloseAudio call on an open session are, in this
\* order: flush, stop, release of the playback buffer, close of the handle.
\* The flush comes before the stop, the buffer is not freed before the stop
\* request, and the close of the handle is the last request.
C19_CloseOrder ==
    [][(session = "open" /\ (Paud_CloseAudio \/ UMS_CloseAudio)) =>
        LET l == log'
            IsStop(e) == e.req \in {"AUDIO_STOP", "stop"}
        IN /\ l # << >> /\ Last(l).req = "close"
           /\ \A i \in 1..Len(l), j \in 1..Len(l) :
                 /\ (l[i].req = "play_remaining_data" /\ IsStop(l[j])) => i < j
                 /\ (IsStop(l[i]) /\ l[j].req = "free") => i < j]_vars

\* C20: no two write attempts of one Paud_PlayAudio call follow each other
\* without a sleep between them.
C20_SleepBetweenWrites ==
    drv = "paud" =>
        \A i \in 1..(Len(log) - 1) :
            ~(log[i].req = "write" /\ log[i + 1].req = "write")

\* C22: over the open / close cycles of a session the process holds at most
\* one open device handle and at most one allocated playback buffer, and
\* holds none of either when CloseAudio has returned.
C22_OneHandleOneBuffer ==
    /\ Cardinality(os.fds) <= 1
    /\ Cardinality(os.heap) <= 1
    /\ Returned("CloseAudio") => (os.fds = {} /\ os.heap = {} /\ ~os.dev)

\* a write attempt recorded in the request history
IsWrite(e) == e.req \in {"write", "UMS_write"}

\* C23: on a session that was closed, GetAudioBuf returns NULL, and no
\* write attempt of PlayAudio is accepted by the device.
C23_NoBufferAfterClose ==
    (session = "closed" /\ ~HoldsHandle) =>
        /\ Returned("GetAudioBuf") => call.ret = NULL
        /\ Returned("PlayAudio") =>
              \A i \in 1..Len(log) :
                  IsWrite(log[i]) =>
                      (log[i].res <= 0
                       /\ log[i].err \notin {ENONE, UMSAudioDevice_Success})

\* the units (Paud: bytes, UMS: samples) the write attempts before the i-th
\* request of l had accepted
RECURSIVE AcceptedBefore(_, _)
AcceptedBefore(l, i) ==
    IF i <= 1 THEN 0
    ELSE AcceptedBefore(l, i - 1)
         + (IF IsWrite(l[i - 1]) /\ l[i - 1].res > 0 THEN l[i - 1].res ELSE 0)

\* where in the buffer the i-th request of l, a write attempt, starts
WriteStart(l, i) ==
    IF l[i].req = "write" THEN Paud_WriteStart(AcceptedBefore(l, i))
    ELSE UMS_WriteStart(AcceptedBefore(l, i))

\* C24: every write attempt of a PlayAudio call on an open session starts at
\* the first unit of the buffer that the earlier attempts of the call have
\* not had accepted, so no unit is accepted twice.
C24_RemainderOnly ==
    session = "open" =>
        \A i \in 1..Len(log) :
            IsWrite(log[i]) => WriteStart(log, i) = AcceptedBefore(log, i)

InWait == pc \in {"Paud_WaitAudio", "Paud_WaitAudio_delay"}

\* the reported time of the latest query of the Paud_WaitAudio requests l
LastQueryRes(l) == IF IsQuery(Last(l)) THEN Last(l).res ELSE l[Len(l) - 1].res

\* a step of Paud_WaitAudio in which the device answers a query with more
\* than the budget
QueryAbove ==
    /\ drv = "paud" /\ pc \in {"idle", "Paud_WaitAudio"}
    /\ log' # << >> /\ IsQuery(log'[1])
    /\ LastQueryRes(log') > MAX_LATENCY_MS

\* C21: if from some point on no query is answered with more than the
\* budget, a Paud_WaitAudio call in its loop eventually returns; and a step
\* in which a query is answered with more than the budget never returns,
\* however many iterations were made.
C21_WaitTerminatesIffDrained ==
    /\ (<>[][~QueryAbove]_vars) => (InWait ~> Returned("WaitAudio"))
    /\ [][QueryAbove => InWait']_vars

\* Paud_WaitAudio is in its sleep after more than MaxQueries queries, all
\* answered with more than the budget
C21_Witness ==
    /\ drv = "paud" /\ session = "open" /\ pc = "Paud_WaitAudio_delay"
    /\ \A i \in 1..Len(log) : IsQuery(log[i]) => log[i].res > MAX_LATENCY_MS

\* Paud_WaitAudio returns whatever the device reports: does not hold, a
\* device that reports more than the budget for ever keeps it in its loop
C21_WaitAlwaysReturns == InWait ~> Returned("WaitAudio")

InPlay == pc \in {"UMS_PlayAudio", "UMS_PlayAudio_test"}

\* a step of UMS_PlayAudio in which the device returns success with no
\* sample written, samples being left
WriteZero ==
    /\ drv = "ums" /\ pc \in {"idle", "UMS_PlayAudio"}
    /\ log' # << >> /\ Last(log').req = "UMS_write"
    /\ Last(log').err = UMSAudioDevice_Success
    /\ Last(log').res = 0 /\ Last(log').arg > 0

\* C25: if from some point on no write returns success with zero samples
\* written, a UMS_PlayAudio call in its loop eventually returns; and a step
\* in which a write returns success with zero samples written stays in the
\* loop, with no sleep made and the count of samples left unchanged.
C25_PlayTerminatesIffProgress ==
    /\ (<>[][~WriteZero]_vars) => (InPlay ~> Returned("PlayAudio"))
    /\ [][WriteZero => (/\ InPlay'
                        /\ Count(log', "SDL_Delay") = 0
                        /\ local'.samplesToWrite = Last(log').arg)]_vars

\* UMS_PlayAudio is at its loop test after more than MaxAttempts writes, the
\* latest of them successful with zero samples written
C25_Witness ==
    /\ drv = "ums" /\ session = "open" /\ pc = "UMS_PlayAudio_test"
    /\ Last(log).res = 0 /\ Last(log).err = UMSAudioDevice_Success
    /\ local.samplesToWrite > 0

\* UMS_PlayAudio returns whatever the device answers: does not hold, a
\* device that accepts zero samples for ever keeps it in its loop
C25_PlayAlwaysReturns == InPlay ~> Returned("PlayAudio")

====
